---- MODULE Spec2Model ----
(***************************************************************************)
(* Count-min sketch of bustub's primer (src/primer/count_min_sketch.cpp,   *)
(* src/include/primer/count_min_sketch.h).                                  *)
(*                                                                         *)
(* Two sketches, "A" and "B", are constructed with dimensions drawn from   *)
(* Dims.  The counters are uint32_t; a counter is kept as a pair           *)
(* <<high 16 bits, low 16 bits>> so that the 32-bit arithmetic of the code *)
(* (increment, addition, minimum, the UINT32_MAX sentinel of Count) is the *)
(* arithmetic of the model.                                                *)
(*                                                                         *)
(* The model's runs keep every counter far below 2^32, but for SpecWide.   *)
(*                                                                         *)
(* Spec        the calls run one after another, each as one step.          *)
(* SpecTopK    Insert and TopK on one sketch.                              *)
(* SpecWide    the calls on one sketch, with A.Merge(A) without limit.     *)
(* SpecMove    the calls and the move constructor.                         *)
(* SpecInsert  threads run Insert on one sketch, one statement per step.   *)
(* SpecThreads two threads make one call each, of any operation.           *)
(* FairThreads the same under a fair scheduler.                            *)
(* SpecRace    two threads make one call each of Insert, Count, Clear.     *)
(* SpecCounts  threads run Insert and Count on one sketch.                 *)
(***************************************************************************)
EXTENDS Integers, Sequences, FiniteSets

VARIABLES
  width_,           \* [Sketches -> Nat]                    uint32_t width_
  depth_,           \* [Sketches -> Nat]                    uint32_t depth_
  counts_,          \* [Sketches -> [row -> [col -> U32]]]  the counter grid
  row_locks_,       \* [Sketches -> [row -> holder]]        one std::mutex per row
  hash_functions_,  \* [Sketches -> [row -> closure]]       the closures of HashFunction
  hashval,          \* [seed -> [key -> Nat]]               the combined hash of a key under a seed
  absorbed,         \* [Sketches -> [Keys -> Nat]]          history: insertions taken in since the last Clear
  ret,              \* the last call and what it returned
  th                \* [Threads -> record]                  the position of each thread inside Insert

vars == <<width_, depth_, counts_, row_locks_, hash_functions_, hashval, absorbed, ret, th>>

----------------------------------------------------------------------------
(* Bounds and input domains *)

Keys == {"a", "b", "c"}
Sketches == {"A", "B"}
Threads == {"t1", "t2"}

\* (width, depth) pairs handed to the constructor.
Dims == {<<2, 2>>, <<1, 2>>, <<2, 1>>}

\* The dimensions of sketch "A".
DimA == <<2, 2>>

\* Insertions one sketch takes in (directly or by Merge) before the model stops feeding it.
MaxInserts == 2

\* Longest candidate list handed to TopK, and largest k.
MaxCand == 2
MaxK == 2

\* Seeds of the hash family and the values a combined hash is drawn from.
Seeds == 0 .. 1
HashVals == 0 .. 1

\* The hash tables tried: every assignment of hash values to the keys under
\* each seed, the columns being named so that key "a" falls in column 0.
HashTables == {h \in [Seeds -> [Keys -> HashVals]] : \A sd \in Seeds : h[sd]["a"] = 0}

----------------------------------------------------------------------------
(* uint32_t *)

LIMB == 65536

U32(n) == <<n \div LIMB, n % LIMB>>

ZERO == <<0, 0>>

\* std::numeric_limits<uint32_t>::max()
UINT32_MAX == <<LIMB - 1, LIMB - 1>>

\* U32Inc of a counter one bit wide.
U32Inc_OneBit(v) == IF v = ZERO THEN <<0, 1>> ELSE ZERO

\* U32Inc of an increment that is lost.
U32Inc_Lost(v) == v

\* counts_[r][col]++
U32Inc(v) ==
  IF v[2] + 1 < LIMB THEN <<v[1], v[2] + 1>>
  ELSE <<(v[1] + 1) % LIMB, 0>>

\* a += b
U32Add(a, b) ==
  LET lo == a[2] + b[2]
      hi == a[1] + b[1] + (lo \div LIMB)
  IN  <<hi % LIMB, lo % LIMB>>

U32Less(a, b) == a[1] < b[1] \/ (a[1] = b[1] /\ a[2] < b[2])

U32Leq(a, b) == ~U32Less(b, a)

\* std::min(a, b): b when b < a, else a
U32Min(a, b) == IF U32Less(b, a) THEN b ELSE a

----------------------------------------------------------------------------
(* Construction *)

Rows(s) == 0 .. depth_[s] - 1
Cols(s) == 0 .. width_[s] - 1

\* counts_(depth, std::vector<uint32_t>(width, 0))
NewGrid(w, d) == [r \in 0 .. d - 1 |-> [c \in 0 .. w - 1 |-> ZERO]]

\* row_locks_(depth)
NewLocks(d) == [r \in 0 .. d - 1 |-> "free"]

\* hash_functions_.push_back(this->HashFunction(i)) for i in 0 .. depth-1:
\* each closure holds its seed and the instance whose width_ it reads.
NewHashFunctions(s, d) == [i \in 0 .. d - 1 |-> [seed |-> i, this |-> s]]

\* HashFunction with a seed that depends on the instance.
HashFunction_PerInstance(s, r, item) ==
  LET f == hash_functions_[s][r]
      seed == IF f.this = "A" THEN f.seed ELSE (f.seed + 1) % 2
  IN  hashval[seed][item] % width_[f.this]

\* hash_functions_[r](item):
\*   CombineHashes(std::hash(item), CombineHashes(seed, SEED_BASE)) % width_
HashFunction(s, r, item) ==
  LET f == hash_functions_[s][r]
  IN  hashval[f.seed][item] % width_[f.this]

\* InsertGrid whose loop stops one row early.
InsertGrid_SkipLastRow(g, s, item) ==
  [r \in Rows(s) |->
     [c \in Cols(s) |->
        IF c = HashFunction(s, r, item) /\ r < depth_[s] - 1 THEN U32Inc(g[r][c])
        ELSE g[r][c]]]

\* InsertGrid that overwrites the rest of the row.
InsertGrid_ResetsRow(g, s, item) ==
  [r \in Rows(s) |->
     [c \in Cols(s) |->
        IF c = HashFunction(s, r, item) THEN U32Inc(g[r][c]) ELSE ZERO]]

\* The loop of Insert run on the grid g of sketch s:
\*   for r in 0 .. depth_-1: counts_[r][hash_functions_[r](item)]++
InsertGrid(g, s, item) ==
  [r \in Rows(s) |->
     [c \in Cols(s) |->
        IF c = HashFunction(s, r, item) THEN U32Inc(g[r][c]) ELSE g[r][c]]]

\* The loop of Count on the grid g of sketch s from row r on, min_count being
\* the minimum so far.
RECURSIVE CountLoop(_, _, _, _, _)
CountLoop(g, s, item, r, min_count) ==
  IF r < depth_[s]
  THEN CountLoop(g, s, item, r + 1,
                 U32Min(min_count, g[r][HashFunction(s, r, item)]))
  ELSE min_count

\* CountOn that reads the first row only.
CountOn_FirstRow(g, s, item) == g[0][HashFunction(s, 0, item)]

\* Count(item) on the grid g of sketch s
CountOn(g, s, item) ==
  LET min_count == CountLoop(g, s, item, 0, UINT32_MAX)
  IN  IF min_count = UINT32_MAX THEN ZERO ELSE min_count

Count(s, item) == CountOn(counts_[s], s, item)

\* ClearGrid that stops one column early.
ClearGrid_KeepsLastColumn(s) ==
  [r \in Rows(s) |->
     [c \in Cols(s) |-> IF c < width_[s] - 1 THEN ZERO ELSE counts_[s][r][c]]]

\* std::fill(counts_[r].begin(), counts_[r].end(), 0) for every row
ClearGrid(s) == [r \in Rows(s) |-> [c \in Cols(s) |-> ZERO]]

\* the test that makes Merge throw std::invalid_argument
Incompatible(s, o) == width_[s] # width_[o] \/ depth_[s] # depth_[o]

\* MergeGrid that adds the first row only.
MergeGrid_FirstRowOnly(s, o) ==
  [r \in Rows(s) |->
     [c \in Cols(s) |->
        IF r = 0 THEN U32Add(counts_[s][r][c], counts_[o][r][c])
        ELSE counts_[s][r][c]]]

\* counts_[r][c] += other.counts_[r][c] for every row and column
MergeGrid(s, o) ==
  [r \in Rows(s) |->
     [c \in Cols(s) |-> U32Add(counts_[s][r][c], counts_[o][r][c])]]

\* MergeResult that adds what the two grids share and tests the dimensions afterwards.
MergeResult_CheckAfter(s, o) ==
  [r \in Rows(s) |->
     [c \in Cols(s) |->
        IF r \in Rows(o) /\ c \in Cols(o)
        THEN U32Add(counts_[s][r][c], counts_[o][r][c])
        ELSE counts_[s][r][c]]]

\* The grid of s when Merge(other) ends, by return or by throw.
MergeResult(s, o) ==
  IF Incompatible(s, o) THEN counts_[s] ELSE MergeGrid(s, o)

\* The comparator of TopK's sort and nth_element: a.second > b.second
Comp(a, b) == U32Less(b[2], a[2])

\* The arrangements of the elements of the sequence q.
Perms(q) ==
  LET n == Len(q)
      bij == {f \in [1 .. n -> 1 .. n] : \A i, j \in 1 .. n : f[i] = f[j] => i = j}
  IN  {[i \in 1 .. n |-> q[f[i]]] : f \in bij}

\* SortOutcomes that leaves the range as it finds it.
SortOutcomes_Unsorted(q) == {q}

\* What std::sort(q.begin(), q.end(), Comp) may leave: an arrangement of q in
\* which no element is before one that Comp puts ahead of it.  The order of
\* elements Comp does not tell apart is not specified.
SortOutcomes(q) ==
  {p \in Perms(q) : \A i, j \in 1 .. Len(p) : i < j => ~Comp(p[j], p[i])}

\* NthElementOutcomes that leaves the range as it finds it.
NthElementOutcomes_NoPartition(q, k) == {q}

\* What std::nth_element(q.begin(), q.begin() + k, q.end(), Comp) may leave: an
\* arrangement of q in which Comp puts no element from position k on (0-based)
\* ahead of an element before position k, and the element at position k is the
\* one a sort would put there.
NthElementOutcomes(q, k) ==
  {p \in Perms(q) :
     /\ \A i \in 1 .. k, j \in k + 1 .. Len(p) : ~Comp(p[j], p[i])
     /\ \A j \in k + 2 .. Len(p) : ~Comp(p[j], p[k + 1])}

\* all: the pair (item, Count(item)) of every candidate, in order
AllPairs(s, candidates) ==
  [i \in 1 .. Len(candidates) |-> <<candidates[i], Count(s, candidates[i])>>]

\* What TopK(k, candidates) may return.
TopKOutcomes(s, k, candidates) ==
  LET all == AllPairs(s, candidates)
  IN  IF k >= Len(all) THEN SortOutcomes(all)
      ELSE UNION {SortOutcomes(SubSeq(p, 1, k)) : p \in NthElementOutcomes(all, k)}

----------------------------------------------------------------------------
(* History *)

NoKeys == [k \in Keys |-> 0]

RECURSIVE SumOver(_, _)
SumOver(f, S) ==
  IF S = {} THEN 0
  ELSE LET x == CHOOSE y \in S : TRUE IN f[x] + SumOver(f, S \ {x})

Total(s) == SumOver(absorbed[s], Keys)

----------------------------------------------------------------------------
(* The calls, each as one step *)

\* A call: its name, receiver and arguments, and in val what it returned.  For
\* Clear, which returns nothing, val is the number of insertions it discarded.
Call(op, s, o, item, val) ==
  [op |-> op, self |-> s, other |-> o, key |-> item, k |-> 0, cands |-> <<>>, val |-> val]

\* The last Count a thread has returned from (history).
NoCount == [self |-> "", key |-> "", val |-> ZERO]

\* A thread outside any call, before its first.  Inside a call: op is the
\* call, self its receiver, other the argument of Merge, key the item, k and
\* cands the arguments of TopK; pc is the statement the thread is at, r and c
\* the loop variables, col the column computed for row r, tmp the counter
\* value read by the increment of Insert, min_count the local of Count, i the
\* position in the candidates and all the pairs TopK has collected.
\* History: waited records that an Insert found the row's lock held when it
\* reached the lock statement; raced that a Merge read a row of its source
\* while another thread held that row's lock; returned and floor, taken when a
\* Count is called, are the number of Insert calls of its key that had
\* returned and the largest value a Count of its key had returned; last is the
\* last Count the thread returned from and called that it has made a call.
NoThread ==
  [pc |-> "idle", op |-> "", self |-> "", other |-> "", key |-> "",
   k |-> 0, cands |-> <<>>, r |-> 0, c |-> 0, col |-> 0, tmp |-> ZERO,
   min_count |-> ZERO, i |-> 0, all |-> <<>>,
   waited |-> FALSE, raced |-> FALSE, returned |-> 0, floor |-> ZERO,
   last |-> NoCount, called |-> FALSE]

Constructed ==
  /\ width_ \in [Sketches -> {d[1] : d \in Dims}]
  /\ depth_ \in [Sketches -> {d[2] : d \in Dims}]
  /\ \A s \in Sketches : <<width_[s], depth_[s]>> \in Dims
  /\ <<width_["A"], depth_["A"]>> = DimA
  /\ counts_ = [s \in Sketches |-> NewGrid(width_[s], depth_[s])]
  /\ row_locks_ = [s \in Sketches |-> NewLocks(depth_[s])]
  /\ hash_functions_ = [s \in Sketches |-> NewHashFunctions(s, depth_[s])]
  /\ hashval \in HashTables
  /\ absorbed = [s \in Sketches |-> NoKeys]
  /\ ret = Call("new", "", "", "", ZERO)
  /\ th = [t \in Threads |-> NoThread]

Init == Constructed

Insert(s, item) ==
  /\ Total("A") + Total("B") < MaxInserts
  /\ counts_' = [counts_ EXCEPT ![s] = InsertGrid(counts_[s], s, item)]
  /\ absorbed' = [absorbed EXCEPT ![s][item] = @ + 1]
  /\ ret' = Call("Insert", s, "", item, ZERO)
  /\ UNCHANGED <<width_, depth_, row_locks_, hash_functions_, hashval, th>>

DoCount(s, item) ==
  /\ ret' = Call("Count", s, "", item, Count(s, item))
  /\ UNCHANGED <<width_, depth_, counts_, row_locks_, hash_functions_, hashval, absorbed, th>>

Clear(s) ==
  /\ counts_' = [counts_ EXCEPT ![s] = ClearGrid(s)]
  /\ absorbed' = [absorbed EXCEPT ![s] = NoKeys]
  /\ ret' = Call("Clear", s, "", "", U32(Total(s)))
  /\ UNCHANGED <<width_, depth_, row_locks_, hash_functions_, hashval, th>>

Merge(s, o) ==
  /\ Incompatible(s, o) \/ Total(s) + Total(o) <= MaxInserts
  /\ counts_' = [counts_ EXCEPT ![s] = MergeResult(s, o)]
  /\ absorbed' = [absorbed EXCEPT ![s] =
                    IF Incompatible(s, o) THEN @
                    ELSE [k \in Keys |-> absorbed[s][k] + absorbed[o][k]]]
  /\ ret' = Call(IF Incompatible(s, o) THEN "MergeThrow" ELSE "Merge", s, o, "", ZERO)
  /\ UNCHANGED <<width_, depth_, row_locks_, hash_functions_, hashval, th>>

\* The candidate lists handed to TopK.
Candidates == UNION {[1 .. n -> Keys] : n \in 0 .. MaxCand}

TopK(s, k, candidates) ==
  /\ \E top \in TopKOutcomes(s, k, candidates) :
       ret' = [op |-> "TopK", self |-> s, other |-> "", key |-> "",
               k |-> k, cands |-> candidates, val |-> top]
  /\ UNCHANGED <<width_, depth_, counts_, row_locks_, hash_functions_, hashval, absorbed, th>>

Next ==
  \/ \E s \in Sketches, item \in Keys : Insert(s, item)
  \/ \E s \in Sketches, item \in Keys : DoCount(s, item)
  \/ \E s \in Sketches : Clear(s)
  \/ \E s \in Sketches, o \in Sketches : Merge(s, o)

Spec == Init /\ [][Next]_vars

\* Insert and TopK on sketch "A", under one hash table: "a" shares its column
\* with "b" in row 0 and with "c" in row 1, so that Count overestimates.
TopKTable == [sd \in Seeds |-> [x \in Keys |-> IF x = "a" \/ (x = "b") = (sd = 0) THEN 0 ELSE 1]]

InitTopK ==
  /\ Constructed
  /\ <<width_["B"], depth_["B"]>> = DimA
  /\ hashval = TopKTable

NextTopK ==
  \/ \E item \in Keys : Insert("A", item)
  \/ \E k \in 0 .. MaxK, candidates \in Candidates : TopK("A", k, candidates)

SpecTopK == InitTopK /\ [][NextTopK]_vars

\* s.Merge(s): other is the receiver itself, its dimensions match, and every
\* counter is added to itself.  The history absorbed is left alone: after 31
\* such calls the number of insertions taken in is past 2^31.
MergeSelf(s) ==
  /\ counts_' = [counts_ EXCEPT ![s] = MergeResult(s, s)]
  /\ ret' = Call("Merge", s, s, "", ZERO)
  /\ UNCHANGED <<width_, depth_, row_locks_, hash_functions_, hashval, absorbed, th>>

\* The calls on sketch "A" alone, with A.Merge(A) as often as one likes: every
\* such call doubles the counters, up to 2^32 and past it.
NextWide ==
  \/ \E item \in Keys : Insert("A", item)
  \/ \E item \in Keys : DoCount("A", item)
  \/ Clear("A")
  \/ MergeSelf("A")
  \/ \E k \in 0 .. 1 : TopK("A", k, <<"a", "b">>)

SpecWide == InitTopK /\ [][NextWide]_vars

\* MovedHashFunctions of a move constructor that builds the target a family.
MovedHashFunctions_Rebuilt(s, d) == NewHashFunctions(s, d)

\* hash_functions_ of a sketch made by the move constructor: the member is not
\* in the initializer list and nothing is pushed, so it is empty.
MovedHashFunctions(s, d) == <<>>

\* CountMinSketch(CountMinSketch &&other) noexcept: the sketch s is made anew
\* from std::move(o).  other keeps its row_locks_ and its hash_functions_.
MoveConstruct(s, o) ==
  /\ s # o
  /\ width_' = [width_ EXCEPT ![s] = width_[o], ![o] = 0]
  /\ depth_' = [depth_ EXCEPT ![s] = depth_[o], ![o] = 0]
  /\ counts_' = [counts_ EXCEPT ![s] = counts_[o], ![o] = <<>>]
  /\ row_locks_' = [row_locks_ EXCEPT ![s] = NewLocks(depth_[o])]
  /\ hash_functions_' = [hash_functions_ EXCEPT ![s] = MovedHashFunctions(s, depth_[o])]
  /\ absorbed' = [absorbed EXCEPT ![s] = absorbed[o], ![o] = NoKeys]
  /\ ret' = Call("MoveConstruct", s, o, "", ZERO)
  /\ UNCHANGED <<hashval, th>>

\* Insert and Count on s reach hash_functions_[r] for a row r that has no
\* function.  Here the family is whole or empty, the row is row 0 and the
\* vector has no storage: the call reads a std::function at address 0 and the
\* process ends, with no counter touched.
Fails(s) == \E r \in Rows(s) : r \notin DOMAIN hash_functions_[s]

Crashed == ret.op = "Fault"

Fault(s, item) ==
  /\ Fails(s)
  /\ ret' = Call("Fault", s, "", item, ZERO)
  /\ UNCHANGED <<width_, depth_, counts_, row_locks_, hash_functions_, hashval, absorbed, th>>

\* The calls one after another, with sketches made by the move constructor;
\* nothing runs once the process has ended.
NextMove ==
  \/ \E s \in Sketches, o \in Sketches : ~Crashed /\ MoveConstruct(s, o)
  \/ \E s \in Sketches, item \in Keys : ~Crashed /\ Fault(s, item)
  \/ \E s \in Sketches, item \in Keys : ~Crashed /\ ~Fails(s) /\ Insert(s, item)
  \/ \E s \in Sketches, item \in Keys : ~Crashed /\ ~Fails(s) /\ DoCount(s, item)
  \/ \E s \in Sketches : ~Crashed /\ Clear(s)

SpecMove == Init /\ [][NextMove]_vars

----------------------------------------------------------------------------
(* Insert run by several threads, one statement per step *)

\* Locked of a loop body that takes no lock.
Locked_NotTaken(t, s, r) == row_locks_

\* The mutexes once thread t has locked row r of s.
Locked(t, s, r) == [row_locks_ EXCEPT ![s][r] = t]

\* Unlocked of a lock_guard that never unlocks.
Unlocked_Never(s, r) == row_locks_

\* The mutexes once the lock_guard of row r of s has gone out of scope.
Unlocked(s, r) == [row_locks_ EXCEPT ![s][r] = "free"]

\* CanLock of a mutex that lets every thread in.
CanLock_NoWait(s, r) == TRUE

\* std::lock_guard<std::mutex> lock(row_locks_[r]) gets past the constructor
\* only when no thread holds the mutex.
CanLock(s, r) == row_locks_[s][r] = "free"

AllIdle == \A t \in Threads : th[t].pc = "idle"

\* Thread t calls Insert(item) on s.
InsertCall(t, s, item) ==
  /\ th[t].pc = "idle"
  /\ Total("A") + Total("B") < MaxInserts
  /\ th' = [th EXCEPT ![t] = [NoThread EXCEPT !.pc = "loop", !.op = "Insert", !.self = s,
                                               !.key = item, !.last = th[t].last, !.called = TRUE]]
  /\ absorbed' = [absorbed EXCEPT ![s][item] = @ + 1]
  /\ UNCHANGED <<width_, depth_, counts_, row_locks_, hash_functions_, hashval, ret>>

\* for (r ...; r < depth_; ...) { size_t col = hash_functions_[r](item); or return
InsertLoop(t, s) ==
  /\ th[t].pc = "loop"
  /\ IF th[t].r < depth_[s]
     THEN /\ th' = [th EXCEPT ![t].col = HashFunction(s, th[t].r, th[t].key),
                              ![t].waited = @ \/ ~CanLock(s, th[t].r),
                              ![t].pc = "lock"]
          /\ ret' = ret
     ELSE /\ th' = [th EXCEPT ![t].pc = "idle"]
          /\ ret' = Call("Insert", s, "", th[t].key, ZERO)
  /\ UNCHANGED <<width_, depth_, counts_, row_locks_, hash_functions_, hashval, absorbed>>

\* std::lock_guard<std::mutex> lock(row_locks_[r]);
InsertLock(t, s) ==
  /\ th[t].pc = "lock"
  /\ CanLock(s, th[t].r)
  /\ row_locks_' = Locked(t, s, th[t].r)
  /\ th' = [th EXCEPT ![t].pc = "load"]
  /\ UNCHANGED <<width_, depth_, counts_, hash_functions_, hashval, absorbed, ret>>

\* counts_[r][col]++ reads the counter ...
InsertLoad(t, s) ==
  /\ th[t].pc = "load"
  /\ th' = [th EXCEPT ![t].tmp = counts_[s][th[t].r][th[t].col], ![t].pc = "store"]
  /\ UNCHANGED <<width_, depth_, counts_, row_locks_, hash_functions_, hashval, absorbed, ret>>

\* ... and writes it back, one higher.
InsertStore(t, s) ==
  /\ th[t].pc = "store"
  /\ counts_' = [counts_ EXCEPT ![s][th[t].r][th[t].col] = U32Inc(th[t].tmp)]
  /\ th' = [th EXCEPT ![t].pc = "unlock"]
  /\ UNCHANGED <<width_, depth_, row_locks_, hash_functions_, hashval, absorbed, ret>>

\* } the lock_guard goes out of scope; r++
InsertUnlock(t, s) ==
  /\ th[t].pc = "unlock"
  /\ row_locks_' = Unlocked(s, th[t].r)
  /\ th' = [th EXCEPT ![t].r = @ + 1, ![t].pc = "loop"]
  /\ UNCHANGED <<width_, depth_, counts_, hash_functions_, hashval, absorbed, ret>>

InitInsert ==
  /\ Constructed
  /\ <<width_["B"], depth_["B"]>> = DimA

NextInsert ==
  \/ \E t \in Threads, item \in Keys : InsertCall(t, "A", item)
  \/ \E t \in Threads : InsertLoop(t, "A")
  \/ \E t \in Threads : InsertLock(t, "A")
  \/ \E t \in Threads : InsertLoad(t, "A")
  \/ \E t \in Threads : InsertStore(t, "A")
  \/ \E t \in Threads : InsertUnlock(t, "A")

SpecInsert == InitInsert /\ [][NextInsert]_vars

-----------------------------------------------------------------------------
(* Count, Clear, Merge and TopK run by threads *)

\* The row locks thread t holds.
Held(t) == UNION {{<<s, r>> : r \in {q \in Rows(s) : row_locks_[s][q] = t}} : s \in Sketches}

\* The Insert calls of item on s that have returned: absorbed counts a call
\* from its invocation.
Returned(s, item) ==
  absorbed[s][item]
    - Cardinality({u \in Threads : /\ th[u].pc # "idle"
                                   /\ th[u].op = "Insert"
                                   /\ th[u].self = s
                                   /\ th[u].key = item})

\* The largest value a Count of item on s has returned to a thread as its
\* last Count.
RECURSIVE FloorOver(_, _, _)
FloorOver(s, item, T) ==
  IF T = {} THEN ZERO
  ELSE LET u == CHOOSE v \in T : TRUE
           rest == FloorOver(s, item, T \ {u})
       IN IF th[u].last.self = s /\ th[u].last.key = item /\ U32Less(rest, th[u].last.val)
          THEN th[u].last.val
          ELSE rest

\* MoreRows of a loop that ends after row 0.
MoreRows_OnlyFirst(t) == th[t].r < 1

\* r < depth_, the test of the loop over the rows in Count, Clear and Merge.
MoreRows(t) == th[t].r < depth_[th[t].self]

\* uint32_t Count(const KeyType &item) const, called by thread t
\*   uint32_t min_count = std::numeric_limits<uint32_t>::max();
CountCall(t, s, item) ==
  /\ th[t].pc = "idle"
  /\ th' = [th EXCEPT ![t] = [NoThread EXCEPT !.pc = "c_loop", !.op = "Count", !.self = s,
                                               !.key = item, !.min_count = UINT32_MAX,
                                               !.returned = Returned(s, item),
                                               !.floor = FloorOver(s, item, Threads),
                                               !.last = th[t].last, !.called = TRUE]]
  /\ UNCHANGED <<width_, depth_, counts_, row_locks_, hash_functions_, hashval, absorbed, ret>>

\* for (size_t r = 0; r < depth_; r++) { col = hash_functions_[r](item);
\*   std::lock_guard<std::mutex> lock(row_locks_[r]);
\* and, past the last row, the return; inside TopK the value goes into all.
CountRow(t) ==
  LET s == th[t].self
      val == IF th[t].min_count = UINT32_MAX THEN ZERO ELSE th[t].min_count
  IN /\ th[t].pc = "c_loop"
     /\ IF MoreRows(t)
        THEN /\ CanLock(s, th[t].r)
             /\ row_locks_' = Locked(t, s, th[t].r)
             /\ th' = [th EXCEPT ![t].col = HashFunction(s, th[t].r, th[t].key),
                                 ![t].pc = "c_read"]
             /\ UNCHANGED ret
        ELSE /\ IF th[t].op = "TopK"
                THEN /\ th' = [th EXCEPT ![t].all = Append(@, <<th[t].key, val>>),
                                         ![t].i = @ + 1, ![t].pc = "t_next"]
                     /\ UNCHANGED ret
                ELSE /\ th' = [th EXCEPT ![t].pc = "idle",
                                         ![t].last = [self |-> s, key |-> th[t].key, val |-> val]]
                     /\ ret' = Call("Count", s, "", th[t].key, val)
             /\ UNCHANGED row_locks_
     /\ UNCHANGED <<width_, depth_, counts_, hash_functions_, hashval, absorbed>>

\*   min_count = std::min(min_count, counts_[r][col]); }
CountRead(t) ==
  LET s == th[t].self
  IN /\ th[t].pc = "c_read"
     /\ th' = [th EXCEPT ![t].min_count = U32Min(@, counts_[s][th[t].r][th[t].col]),
                         ![t].r = @ + 1, ![t].pc = "c_loop"]
     /\ row_locks_' = Unlocked(s, th[t].r)
     /\ UNCHANGED <<width_, depth_, counts_, hash_functions_, hashval, absorbed, ret>>

\* void Clear(), called by thread t
ClearCall(t, s) ==
  /\ th[t].pc = "idle"
  /\ th' = [th EXCEPT ![t] = [NoThread EXCEPT !.pc = "x_loop", !.op = "Clear", !.self = s,
                                               !.last = th[t].last, !.called = TRUE]]
  /\ absorbed' = [absorbed EXCEPT ![s] = NoKeys]
  /\ UNCHANGED <<width_, depth_, counts_, row_locks_, hash_functions_, hashval, ret>>

\* for (size_t r = 0; r < depth_; r++) {
\*   std::lock_guard<std::mutex> lock(row_locks_[r]);
ClearRow(t) ==
  LET s == th[t].self
  IN /\ th[t].pc = "x_loop"
     /\ IF MoreRows(t)
        THEN /\ CanLock(s, th[t].r)
             /\ row_locks_' = Locked(t, s, th[t].r)
             /\ th' = [th EXCEPT ![t].c = 0, ![t].pc = "x_fill"]
             /\ UNCHANGED ret
        ELSE /\ th' = [th EXCEPT ![t].pc = "idle"]
             /\ ret' = Call("Clear", s, "", "", ZERO)
             /\ UNCHANGED row_locks_
     /\ UNCHANGED <<width_, depth_, counts_, hash_functions_, hashval, absorbed>>

\* RowDone of a loop that stops after its first counter.
RowDone_AfterFirst(s, c) == TRUE

\* Column c is the last of a row of s: the loops over a row end after it.
RowDone(s, c) == c + 1 >= width_[s]

\*   std::fill(counts_[r].begin(), counts_[r].end(), 0); }   one counter a step
ClearFill(t) ==
  LET s == th[t].self
  IN /\ th[t].pc = "x_fill"
     /\ counts_' = [counts_ EXCEPT ![s][th[t].r][th[t].c] = ZERO]
     /\ IF RowDone(s, th[t].c)
        THEN /\ row_locks_' = Unlocked(s, th[t].r)
             /\ th' = [th EXCEPT ![t].r = @ + 1, ![t].pc = "x_loop"]
        ELSE /\ th' = [th EXCEPT ![t].c = @ + 1]
             /\ UNCHANGED row_locks_
     /\ UNCHANGED <<width_, depth_, hash_functions_, hashval, absorbed, ret>>

\* void Merge(const CountMinSketch<KeyType> &other), called by thread t
\*   if (width_ != other.width_ || depth_ != other.depth_) { throw ... }
MergeCall(t, s, o) ==
  /\ th[t].pc = "idle"
  /\ Incompatible(s, o) \/ Total(s) + Total(o) <= MaxInserts
  /\ IF Incompatible(s, o)
     THEN /\ th' = [th EXCEPT ![t] = [NoThread EXCEPT !.op = "Merge", !.self = s, !.other = o,
                                                       !.last = th[t].last, !.called = TRUE]]
          /\ ret' = Call("MergeThrow", s, o, "", ZERO)
          /\ UNCHANGED absorbed
     ELSE /\ th' = [th EXCEPT ![t] = [NoThread EXCEPT !.pc = "m_loop", !.op = "Merge",
                                                       !.self = s, !.other = o,
                                                       !.last = th[t].last, !.called = TRUE]]
          /\ absorbed' = [absorbed EXCEPT ![s] = [x \in Keys |-> absorbed[s][x] + absorbed[o][x]]]
          /\ UNCHANGED ret
  /\ UNCHANGED <<width_, depth_, counts_, row_locks_, hash_functions_, hashval>>

\* MergeLocked of a Merge that locks the row of its source as well.
MergeLocked_Both(t, s, o, r) == [row_locks_ EXCEPT ![s][r] = t, ![o][r] = t]

\* The mutexes once a Merge of o into s, run by t, has locked row r: only
\* row_locks_[r] of the receiver.
MergeLocked(t, s, o, r) == Locked(t, s, r)

\* for (size_t r = 0; r < depth_; r++) {
\*   std::lock_guard<std::mutex> lock(row_locks_[r]);
MergeRow(t) ==
  LET s == th[t].self
  IN /\ th[t].pc = "m_loop"
     /\ IF MoreRows(t)
        THEN /\ CanLock(s, th[t].r)
             /\ row_locks_' = MergeLocked(t, s, th[t].other, th[t].r)
             /\ th' = [th EXCEPT ![t].c = 0, ![t].pc = "m_add"]
             /\ UNCHANGED ret
        ELSE /\ th' = [th EXCEPT ![t].pc = "idle"]
             /\ ret' = Call("Merge", s, th[t].other, "", ZERO)
             /\ UNCHANGED row_locks_
     /\ UNCHANGED <<width_, depth_, counts_, hash_functions_, hashval, absorbed>>

\*   for (size_t c = 0; c < width_; c++) { counts_[r][c] += other.counts_[r][c]; } }
\* one counter a step; the counter of other is read with none of its locks.
MergeAdd(t) ==
  LET s == th[t].self
      o == th[t].other
      r == th[t].r
      c == th[t].c
      busy == o # s /\ row_locks_[o][r] \notin {"free", t}
  IN /\ th[t].pc = "m_add"
     /\ counts_' = [counts_ EXCEPT ![s][r][c] = U32Add(@, counts_[o][r][c])]
     /\ IF RowDone(s, c)
        THEN /\ row_locks_' = Unlocked(s, r)
             /\ th' = [th EXCEPT ![t].r = @ + 1, ![t].pc = "m_loop",
                                 ![t].raced = @ \/ busy]
        ELSE /\ th' = [th EXCEPT ![t].c = @ + 1, ![t].raced = @ \/ busy]
             /\ UNCHANGED row_locks_
     /\ UNCHANGED <<width_, depth_, hash_functions_, hashval, absorbed, ret>>

\* The results TopK can return once it has collected the pairs all.
TopKOf(all, k) ==
  IF k >= Len(all)
  THEN SortOutcomes(all)
  ELSE UNION {SortOutcomes(SubSeq(p, 1, k)) : p \in NthElementOutcomes(all, k)}

\* std::vector<...> TopK(uint16_t k, const std::vector<KeyType> &candidates),
\* called by thread t
TopKCall(t, s, k, candidates) ==
  /\ th[t].pc = "idle"
  /\ th' = [th EXCEPT ![t] = [NoThread EXCEPT !.pc = "t_next", !.op = "TopK", !.self = s,
                                               !.k = k, !.cands = candidates, !.i = 1,
                                               !.last = th[t].last, !.called = TRUE]]
  /\ UNCHANGED <<width_, depth_, counts_, row_locks_, hash_functions_, hashval, absorbed, ret>>

\* for (const auto &item : candidates) { all.emplace_back(item, Count(item)); }
\* and, past the last candidate, the selection and the return.
TopKNext(t) ==
  /\ th[t].pc = "t_next"
  /\ IF th[t].i <= Len(th[t].cands)
     THEN /\ th' = [th EXCEPT ![t].key = th[t].cands[th[t].i], ![t].r = 0,
                              ![t].min_count = UINT32_MAX, ![t].pc = "c_loop"]
          /\ UNCHANGED ret
     ELSE /\ th' = [th EXCEPT ![t].pc = "idle"]
          /\ \E top \in TopKOf(th[t].all, th[t].k) :
               ret' = [op |-> "TopK", self |-> th[t].self, other |-> "", key |-> "",
                       k |-> th[t].k, cands |-> th[t].cands, val |-> top]
  /\ UNCHANGED <<width_, depth_, counts_, row_locks_, hash_functions_, hashval, absorbed>>

\* One statement of whatever call thread t is in.
Step(t) ==
  \/ InsertLoop(t, th[t].self)
  \/ InsertLock(t, th[t].self)
  \/ InsertLoad(t, th[t].self)
  \/ InsertStore(t, th[t].self)
  \/ InsertUnlock(t, th[t].self)
  \/ CountRow(t)
  \/ CountRead(t)
  \/ ClearRow(t)
  \/ ClearFill(t)
  \/ MergeRow(t)
  \/ MergeAdd(t)
  \/ TopKNext(t)

\* Threads call Insert, Count, Clear, Merge and TopK on the two sketches, which
\* have the same dimensions and hash as TopKTable says; every thread makes one
\* call, so that the calls of the two threads overlap in every way.
Fresh(t) == ~th[t].called

InitThreads ==
  /\ Constructed
  /\ <<width_["B"], depth_["B"]>> = DimA
  /\ hashval = TopKTable

NextThreads ==
  \/ \E t \in Threads, s \in Sketches, item \in Keys :
       Fresh(t) /\ InsertCall(t, s, item)
  \/ \E t \in Threads, s \in Sketches, item \in Keys :
       Fresh(t) /\ CountCall(t, s, item)
  \/ \E t \in Threads, s \in Sketches :
       Fresh(t) /\ ClearCall(t, s)
  \/ \E t \in Threads, s \in Sketches, o \in Sketches :
       Fresh(t) /\ MergeCall(t, s, o)
  \/ \E t \in Threads, s \in Sketches :
       Fresh(t) /\ TopKCall(t, s, 1, <<"a", "b">>)
  \/ \E t \in Threads : Step(t)

SpecThreads == InitThreads /\ [][NextThreads]_vars

\* The scheduler lets every thread that can take a step take one.
FairThreads == SpecThreads /\ \A t \in Threads : WF_vars(Step(t))

\* Two calls race on sketch "A": after some Insert calls made one after another,
\* each thread makes one call, an Insert, a Clear or a Count.
NextRace ==
  \/ \E item \in Keys : (\A t \in Threads : Fresh(t)) /\ Insert("A", item)
  \/ \E t \in Threads, item \in Keys : Fresh(t) /\ InsertCall(t, "A", item)
  \/ \E t \in Threads, item \in Keys : Fresh(t) /\ CountCall(t, "A", item)
  \/ \E t \in Threads : Fresh(t) /\ ClearCall(t, "A")
  \/ \E t \in Threads : InsertLoop(t, "A")
  \/ \E t \in Threads : InsertLock(t, "A")
  \/ \E t \in Threads : InsertLoad(t, "A")
  \/ \E t \in Threads : InsertStore(t, "A")
  \/ \E t \in Threads : InsertUnlock(t, "A")
  \/ \E t \in Threads : CountRow(t)
  \/ \E t \in Threads : CountRead(t)
  \/ \E t \in Threads : ClearRow(t)
  \/ \E t \in Threads : ClearFill(t)

SpecRace == InitThreads /\ [][NextRace]_vars

\* Threads call Insert, of any key, and Count, of "a", on sketch "A", again and
\* again, and nothing else.
NextCounts ==
  \/ \E t \in Threads, item \in Keys : InsertCall(t, "A", item)
  \/ \E t \in Threads : CountCall(t, "A", "a")
  \/ \E t \in Threads : InsertLoop(t, "A")
  \/ \E t \in Threads : InsertLock(t, "A")
  \/ \E t \in Threads : InsertLoad(t, "A")
  \/ \E t \in Threads : InsertStore(t, "A")
  \/ \E t \in Threads : InsertUnlock(t, "A")
  \/ \E t \in Threads : CountRow(t)
  \/ \E t \in Threads : CountRead(t)

SpecCounts == InitThreads /\ [][NextCounts]_vars

----------------------------------------------------------------------------
(* Properties of the calls run one after another *)

\* The sketch of s's dimensions and hash family into which every key k is
\* inserted h[k] times, starting from the grid g.
RECURSIVE InsertAll(_, _, _)
InsertAll(g, s, h) ==
  IF \A k \in Keys : h[k] = 0 THEN g
  ELSE LET k == CHOOSE y \in Keys : h[y] > 0
       IN  InsertAll(InsertGrid(g, s, k), s, [h EXCEPT ![k] = @ - 1])

Combined(s) == InsertAll(NewGrid(width_[s], depth_[s]), s, absorbed[s])

\* x has a row of s in which no other key taken in shares its column.
HasCleanRow(s, x) ==
  \E r \in Rows(s) :
    \A y \in Keys \ {x} :
      absorbed[s][y] > 0 => HashFunction(s, r, y) # HashFunction(s, r, x)

\* C1: no underestimate.  With no Clear since, a key inserted n times has
\* Count >= n: in every state, for every sketch and key, and for the value the
\* last Count call returned.
C1_NoUnderestimate ==
  /\ \A s \in Sketches, x \in Keys : U32Leq(U32(absorbed[s][x]), Count(s, x))
  /\ ret.op = "Count" => U32Leq(U32(absorbed[ret.self][ret.key]), ret.val)

C1_Witness ==
  /\ ret.op = "Count"
  /\ absorbed[ret.self][ret.key] = 2
  /\ ret.val = U32(2)

NoWrap(s, o) ==
  \A r \in Rows(s), c \in Cols(s) :
    U32Leq(counts_[s][r][c], U32Add(counts_[s][r][c], counts_[o][r][c]))

C3_GridIsCombined ==
  \A s \in Sketches :
    /\ counts_[s] = Combined(s)
    /\ \A x \in Keys : Count(s, x) = CountOn(Combined(s), s, x)

C3_CellSums ==
  \A s \in Sketches, o \in Sketches :
    (ret'.op = "Merge" /\ ret'.self = s /\ ret'.other = o) =>
      \A r \in Rows(s), c \in Cols(s) :
        counts_'[s][r][c] = U32Add(counts_[s][r][c], counts_[o][r][c])

C3_MergeIsCombined == []C3_GridIsCombined /\ [][C3_CellSums]_vars

C3_Witness ==
  /\ ret.op = "Merge"
  /\ ret.self # ret.other
  /\ \E x \in Keys : \E y \in Keys \ {x} :
       /\ absorbed[ret.other][y] > 0
       /\ absorbed[ret.self][x] > 0
       /\ absorbed[ret.other][x] = 0

\* C4: a Merge of sketches whose width or depth differ throws and leaves the
\* grids and the dimensions of both as they were.
C4_MismatchRejected ==
  [][\A s \in Sketches, o \in Sketches :
       (/\ ret'.op \in {"Merge", "MergeThrow"}
        /\ ret'.self = s
        /\ ret'.other = o
        /\ Incompatible(s, o)) =>
         /\ ret'.op = "MergeThrow"
         /\ UNCHANGED <<counts_, width_, depth_>>]_vars

C4_Witness ==
  /\ ret.op = "MergeThrow"
  /\ Total(ret.self) > 0
  /\ Total(ret.other) > 0
  /\ counts_[ret.self] = Combined(ret.self)

\* C5: once Clear has returned, and until the sketch takes in a key again by
\* Insert or Merge, Count is 0 for every key.
C5_ClearResets ==
  /\ ret.op = "Clear" => \A x \in Keys : Count(ret.self, x) = ZERO
  /\ \A s \in Sketches : Total(s) = 0 => \A x \in Keys : Count(s, x) = ZERO
  /\ (ret.op = "Count" /\ Total(ret.self) = 0) => ret.val = ZERO

C5_Witness ==
  /\ ret.op = "Clear"
  /\ ret.val = U32(2)

\* C6: monotonicity.  No Insert, of whatever key into whatever sketch, lowers
\* the Count of any key.
C6_Monotone ==
  [][ret'.op = "Insert" =>
       \A t \in Sketches, x \in Keys : U32Leq(Count(t, x), Count(t, x)')]_vars

C6_Witness ==
  /\ ret.op = "Insert"
  /\ \E x \in Keys \ {ret.key} :
       /\ absorbed[ret.self][x] = 1
       /\ Count(ret.self, x) = U32(2)

\* C9: with no Clear since, a key that has a row where no other key taken in
\* shares its column has Count equal to the number of times it was inserted;
\* for an unseen key that is 0.
C9_ExactWithoutCollision ==
  /\ \A s \in Sketches, x \in Keys :
       HasCleanRow(s, x) => Count(s, x) = U32(absorbed[s][x])
  /\ (ret.op = "Count" /\ HasCleanRow(ret.self, ret.key)) =>
       ret.val = U32(absorbed[ret.self][ret.key])

C9_Witness ==
  /\ ret.op = "Count"
  /\ HasCleanRow(ret.self, ret.key)
  /\ ret.val = U32(1)
  /\ \E y \in Keys \ {ret.key}, r \in Rows(ret.self) :
       /\ absorbed[ret.self][y] > 0
       /\ HashFunction(ret.self, r, y) = HashFunction(ret.self, r, ret.key)

----------------------------------------------------------------------------
(* Properties of TopK *)

\* How often key x is among the first components of the pairs of q, and how
\* often it is in the key sequence q.
RECURSIVE OccPairs(_, _)
OccPairs(q, x) ==
  IF q = <<>> THEN 0
  ELSE (IF Head(q)[1] = x THEN 1 ELSE 0) + OccPairs(Tail(q), x)

RECURSIVE Occ(_, _)
Occ(q, x) ==
  IF q = <<>> THEN 0
  ELSE (IF Head(q) = x THEN 1 ELSE 0) + Occ(Tail(q), x)

Smaller(m, n) == IF m < n THEN m ELSE n

\* C7: TopK(k, candidates) returns min(k, len(candidates)) pairs in order of
\* non-increasing count, every pair being a candidate with the Count of its
\* key on the sketch; with k >= len(candidates) it returns every candidate.
C7_TopKShape ==
  ret.op = "TopK" =>
    /\ Len(ret.val) = Smaller(ret.k, Len(ret.cands))
    /\ \A i, j \in 1 .. Len(ret.val) : i < j => U32Leq(ret.val[j][2], ret.val[i][2])
    /\ \A i \in 1 .. Len(ret.val) : ret.val[i][2] = Count(ret.self, ret.val[i][1])
    /\ \A x \in Keys : OccPairs(ret.val, x) <= Occ(ret.cands, x)
    /\ ret.k >= Len(ret.cands) =>
         \A x \in Keys : OccPairs(ret.val, x) = Occ(ret.cands, x)

C7_Witness ==
  /\ ret.op = "TopK"
  /\ ret.k >= 2
  /\ Len(ret.val) = 2
  /\ U32Less(ret.val[2][2], ret.val[1][2])
  /\ ret.cands[1] = ret.val[2][1]

\* C8: with k < len(candidates), every count TopK returns is >= the count of
\* every candidate it did not return.
C8_TopKSelects ==
  (ret.op = "TopK" /\ ret.k < Len(ret.cands)) =>
    \A x \in Keys :
      OccPairs(ret.val, x) < Occ(ret.cands, x) =>
        \A i \in 1 .. Len(ret.val) : U32Leq(Count(ret.self, x), ret.val[i][2])

C8_Witness ==
  /\ ret.op = "TopK"
  /\ ret.k = 1
  /\ Len(ret.cands) = 2
  /\ U32Less(Count(ret.self, ret.cands[1]), Count(ret.self, ret.cands[2]))
  /\ ret.val = <<<<ret.cands[2], Count(ret.self, ret.cands[2])>>>>

----------------------------------------------------------------------------
(* Properties of concurrent Insert *)

\* The number of Insert calls on s whose key falls in column c of row r.
Expected(s, r, c) ==
  SumOver([x \in Keys |-> IF HashFunction(s, r, x) = c THEN absorbed[s][x] ELSE 0], Keys)

\* C10: no lost update.  Once every Insert call the threads made has
\* returned, each cell, 0 at the start, holds the number of calls whose key
\* falls in its column of its row.
C10_NoLostUpdate ==
  AllIdle =>
    \A r \in Rows("A"), c \in Cols("A") :
      counts_["A"][r][c] = U32(Expected("A", r, c))

C10_Witness ==
  /\ AllIdle
  /\ \A t \in Threads : th[t].waited
  /\ \A r \in Rows("A") : \E c \in Cols("A") : counts_["A"][r][c] = U32(2)

-----------------------------------------------------------------------------
(* Properties of the calls run by threads *)

\* A call is in progress and no thread can take a step.
Stuck == ~AllIdle /\ \A t \in Threads : ~ENABLED Step(t)

\* One thread is in A.Merge(B) and another in B.Merge(A), each holding a row lock
\* of its receiver.
CrossMerge ==
  \E t \in Threads, u \in Threads :
    /\ th[t].op = "Merge" /\ th[t].self = "A" /\ th[t].other = "B" /\ th[t].pc = "m_add"
    /\ th[u].op = "Merge" /\ th[u].self = "B" /\ th[u].other = "A" /\ th[u].pc = "m_add"

\* C11: whatever calls the threads make at the same time (Insert, Count, Clear,
\* Merge, A.Merge(B) together with B.Merge(A), TopK), no reachable state has a
\* call in progress and no thread able to take a step, and under a fair
\* scheduler every call that was invoked returns.
C11_CallsComplete ==
  /\ []~Stuck
  /\ \A t \in Threads : (th[t].pc # "idle") ~> (th[t].pc = "idle")

\* A.Merge(B) and B.Merge(A) are both inside their loops, each with a row of
\* its receiver locked.
C11_Witness == CrossMerge

\* The statements that read or write a counter of the receiver.
Accessing(t) == th[t].pc \in {"load", "store", "c_read", "x_fill", "m_add"}

\* A thread holds no lock or one; at a statement that reads or writes
\* grid[r][*] of its receiver it holds the lock of row r of its receiver, and
\* elsewhere, but for Insert about to unlock, it holds none.
OneLockHeld ==
  \A t \in Threads :
    /\ Cardinality(Held(t)) <= 1
    /\ Accessing(t) \/ th[t].pc = "unlock" => Held(t) = {<<th[t].self, th[t].r>>}
    /\ ~(Accessing(t) \/ th[t].pc = "unlock") => Held(t) = {}

\* A step that locks takes the lock of the row the loop is at, with no lock
\* held; inside one Insert, Count, Clear or Merge the loop only moves to the
\* next row, after the lock is released; and a counter of row r changes only
\* in a step of a thread that holds the lock of row r.
LockedInOrder ==
  /\ \A t \in Threads :
       /\ Held(t)' # Held(t) /\ Held(t)' # {}
            => Held(t) = {} /\ Held(t)' = {<<th[t].self, th[t].r>>} /\ th'[t].r = th[t].r
       /\ th'[t].r # th[t].r
            => \/ th'[t].r = th[t].r + 1 /\ Held(t)' = {}
               \/ th'[t].r = 0 /\ th[t].pc \in {"idle", "t_next"}
  /\ \A s \in Sketches : \A r \in Rows(s) :
       counts_'[s][r] # counts_[s][r]
         => \E t \in Threads : Accessing(t) /\ th[t].self = s /\ th[t].r = r
                               /\ row_locks_[s][r] = t

\* C12: in Insert, Count, Clear and Merge a thread holds at most one row lock,
\* locks the rows in increasing order, releases each before it locks the
\* next, and reads or writes grid[r][*] of its receiver only while it holds
\* the lock of row r.
C12_LockDiscipline == []OneLockHeld /\ [][LockedInOrder]_vars

\* A thread writes row 1 of A under its lock, having been through row 0,
\* while the other thread waits for that lock.
C12_Witness ==
  \E t \in Threads, u \in Threads :
    /\ Accessing(t) /\ th[t].self = "A" /\ th[t].r = 1 /\ th[t].op \in {"Clear", "Merge"}
    /\ th[u].pc \in {"lock", "c_loop", "x_loop", "m_loop"}
    /\ th[u].self = "A" /\ th[u].r = 1
    /\ ~CanLock("A", 1)

\* C13: a thread in A.Merge(B) holds no row lock of B at any time; so Merge
\* can read row r of B while another thread, inside Insert on B, holds the
\* lock of that row, and A can end with that Insert in some rows and not in
\* others.
C13_SourceNeverLocked ==
  \A t \in Threads : \A s \in Sketches : \A o \in Sketches \ {s} :
    th[t].op = "Merge" /\ th[t].self = s /\ th[t].other = o
      => \A r \in Rows(o) : row_locks_[o][r] # t

\* Both calls have returned; A.Merge(B) read a row of B while the thread in
\* B.Insert(x) held its lock, B has x in every row and A has it in one row and
\* not in another.
C13_Witness ==
  \E t \in Threads, u \in Threads, x \in Keys :
    /\ AllIdle
    /\ th[t].op = "Merge" /\ th[t].self = "A" /\ th[t].other = "B" /\ th[t].raced
    /\ th[u].op = "Insert" /\ th[u].self = "B" /\ th[u].key = x
    /\ \A r \in Rows("B") : counts_["B"][r][HashFunction("B", r, x)] = U32(1)
    /\ \E r \in Rows("A") : counts_["A"][r][HashFunction("B", r, x)] = U32(1)
    /\ \E r \in Rows("A") : counts_["A"][r][HashFunction("B", r, x)] = ZERO

\* A row of zeros, and a row of zeros but for a 1 in the column of x in row r.
ZeroRow(s) == [c \in Cols(s) |-> ZERO]
OneRow(s, r, x) == [ZeroRow(s) EXCEPT ![HashFunction(s, r, x)] = U32(1)]

\* One thread has called Insert and the other Clear, and both calls have
\* returned.
InsertAndClearDone(t, u) ==
  /\ AllIdle
  /\ th[t].op = "Insert"
  /\ th[u].op = "Clear"

\* C14: when one Insert(x) and one Clear() have run at the same time on a
\* sketch and both have returned, every row is all zeros, or all zeros but for
\* a 1 in the column of x.
C14_InsertClearRows ==
  \A t \in Threads, u \in Threads :
    InsertAndClearDone(t, u)
      => \A r \in Rows("A") : counts_["A"][r] \in {ZeroRow("A"), OneRow("A", r, th[t].key)}

\* The two calls leave row 0 zero and x counted in row 1: Clear was at row 0
\* after Insert and at row 1 before it.
C14_Witness ==
  \E t \in Threads, u \in Threads :
    /\ InsertAndClearDone(t, u)
    /\ ret.op = "Insert"
    /\ counts_["A"][0] = ZeroRow("A")
    /\ counts_["A"][1] = OneRow("A", 1, th[t].key)

\* The grid of "A" before the one Insert that thread t has called, if it has,
\* and after it: no other call changes the grid.
GridBefore(t) ==
  InsertAll(NewGrid(width_["A"], depth_["A"]), "A",
            IF th[t].op = "Insert" THEN [absorbed["A"] EXCEPT ![th[t].key] = @ - 1]
            ELSE absorbed["A"])
GridAfter == Combined("A")

\* Thread u has returned from Count while the other thread t calls Insert or
\* nothing.
CountBesideInsert(t, u) ==
  /\ t # u
  /\ th[t].op \in {"", "Insert"}
  /\ th[u].op = "Count"
  /\ th[u].pc = "idle"

\* C15: a Count(x) that runs beside a single Insert, with no other change of
\* the grid, returns a value from what Count(x) returns on the grid before the
\* Insert to what it returns on the grid after it.
C15_CountBetween ==
  \A t \in Threads, u \in Threads :
    CountBesideInsert(t, u)
      => /\ U32Leq(CountOn(GridBefore(t), "A", th[u].key), th[u].last.val)
         /\ U32Leq(th[u].last.val, CountOn(GridAfter, "A", th[u].key))

\* Count(x) has returned the value of before while Insert(x), still running,
\* has already raised row 0, and the value of after is larger.
C15_Witness ==
  \E t \in Threads, u \in Threads :
    /\ CountBesideInsert(t, u)
    /\ th[t].pc # "idle" /\ th[t].r >= 1 /\ th[t].key = th[u].key
    /\ th[u].last.val = CountOn(GridBefore(t), "A", th[u].key)
    /\ U32Less(th[u].last.val, CountOn(GridAfter, "A", th[u].key))
    /\ ret.op = "Count"

\* Thread t has returned from a Count.
CountDone(t) == th[t].op = "Count" /\ th[t].pc = "idle"

\* C16: with threads running Insert at the same time and no Clear, a Count(x)
\* called after another Count(x) has returned returns at least the value that
\* one returned.
C16_CountsMonotone ==
  \A t \in Threads : CountDone(t) => U32Leq(th[t].floor, th[t].last.val)

\* A Count(x) returned 1 to the other thread; this one, called later, has
\* returned 2.
C16_Witness ==
  \E t \in Threads, u \in Threads :
    /\ t # u
    /\ CountDone(t)
    /\ th[u].last = [self |-> "A", key |-> th[t].key, val |-> U32(1)]
    /\ th[t].floor = U32(1)
    /\ th[t].last.val = U32(2)

\* C19: with threads running Insert and Count at the same time and no Clear, a
\* Count(x) called after n calls of Insert(x) have returned returns at least n.
C19_CountsReturned ==
  \A t \in Threads : CountDone(t) => U32Leq(U32(th[t].returned), th[t].last.val)

\* One Insert(x) had returned when Count(x) was called; Count has returned 1
\* while a second Insert(x), of the other thread, is still running.
C19_Witness ==
  \E t \in Threads, u \in Threads :
    /\ CountDone(t)
    /\ th[t].returned = 1
    /\ th[t].last.val = U32(1)
    /\ th[u].op = "Insert" /\ th[u].pc # "idle" /\ th[u].key = th[t].key
    /\ ret.op = "Count"

-----------------------------------------------------------------------------
(* Properties of the grid *)

\* The grid of every sketch is depth_ rows of width_ counters.
GridShape ==
  \A s \in Sketches :
    /\ DOMAIN counts_[s] = Rows(s)
    /\ \A r \in Rows(s) : DOMAIN counts_[s][r] = Cols(s)

\* The call that returns in this step leaves the dimensions alone; Insert and
\* Merge lower no counter, Count and TopK change none, and a counter that gets
\* lower does so in Clear and is zero afterwards.
CountersGrow ==
  /\ width_' = width_
  /\ depth_' = depth_
  /\ ret'.op \in {"Count", "TopK"} => counts_' = counts_
  /\ \A s \in Sketches : \A r \in Rows(s) : \A c \in Cols(s) :
       /\ ret'.op \in {"Insert", "Merge"} => U32Leq(counts_[s][r][c], counts_'[s][r][c])
       /\ U32Less(counts_'[s][r][c], counts_[s][r][c])
            => ret'.op = "Clear" /\ counts_'[s][r][c] = ZERO

\* C17: over any sequence of Insert, Count, Clear, Merge and TopK the grid
\* stays depth x width, no counter gets lower but by being set to zero in
\* Clear, Insert and Merge only raise counters, and Count and TopK leave the
\* grid as it is.
C17_GridInvariant == []GridShape /\ [][CountersGrow]_vars

-----------------------------------------------------------------------------
(* Properties of the move constructor *)

\* s has rows and no hash function: it was made by the move constructor.
MovedInto(s) == depth_[s] > 0 /\ hash_functions_[s] = <<>>

\* s has no rows, no columns and no counters: it was moved from.
MovedFrom(s) == width_[s] = 0 /\ depth_[s] = 0 /\ counts_[s] = <<>>

\* The move constructor, given a source with rows, hands the target the
\* source's width, depth and grid and no hash function, and leaves the source
\* moved from.
MoveHandsOver ==
  \A s \in Sketches : \A o \in Sketches \ {s} :
    (ret'.op = "MoveConstruct" /\ ret'.self = s /\ ret'.other = o /\ depth_[o] > 0)
      => /\ width_'[s] = width_[o]
         /\ depth_'[s] = depth_[o]
         /\ counts_'[s] = counts_[o]
         /\ MovedInto(s)'
         /\ MovedFrom(o)'

\* Insert and Count on a sketch made by the move constructor fail; on a sketch
\* moved from, Insert and Clear change nothing and Count returns 0.
AfterMove ==
  \A s \in Sketches :
    /\ (MovedInto(s) /\ ret'.self = s /\ ret'.op \in {"Insert", "Count", "Fault"})
         => ret'.op = "Fault"
    /\ (MovedFrom(s) /\ ret'.self = s /\ ret'.op \in {"Insert", "Clear", "Count", "Fault"})
         => /\ ret'.op # "Fault"
            /\ <<width_, depth_, counts_>>' = <<width_, depth_, counts_>>
            /\ ret'.op = "Count" => ret'.val = ZERO

\* C18: a sketch move-constructed from a source with depth > 0 has the source's
\* width, depth and grid and an empty hash family, so Insert or Count on it
\* index a hash function that is not there and fail; the source is left with
\* width 0, depth 0 and an empty grid, on which Insert and Clear do nothing and
\* Count returns 0.
C18_MoveLeavesNoHash == [][MoveHandsOver /\ AfterMove]_vars

\* B was made from A, which had taken in an insertion; Insert or Count on B
\* has failed.
C18_Witness ==
  /\ ret.op = "Fault" /\ ret.self = "B"
  /\ MovedInto("B")
  /\ MovedFrom("A")
  /\ \E r \in Rows("B"), c \in Cols("B") : counts_["B"][r][c] # ZERO

-----------------------------------------------------------------------------
(* Properties of the row sums *)

\* The sum of the counters of row r of s, as a number: high limb, which may
\* pass 2^16, and low limb.
RECURSIVE SumCols(_, _, _)
SumCols(s, r, C) ==
  IF C = {} THEN <<0, 0>>
  ELSE LET c == CHOOSE d \in C : TRUE
           rest == SumCols(s, r, C \ {c})
           lo == rest[2] + counts_[s][r][c][2]
       IN <<rest[1] + counts_[s][r][c][1] + (lo \div LIMB), lo % LIMB>>

RowSum(s, r) == SumCols(s, r, Cols(s))

\* All rows of a sketch have the same sum.
RowSumsEqual ==
  \A s \in Sketches : \A r \in Rows(s) : \A q \in Rows(s) : RowSum(s, r) = RowSum(s, q)

\* The sum of every row is the number of insertions the sketch has taken in
\* since its last Clear.
RowSumsAreAbsorbed ==
  \A s \in Sketches : \A r \in Rows(s) : RowSum(s, r) = U32(Total(s))

\* An Insert raises one counter of every row of its sketch by one and leaves
\* every other counter as it is.
InsertAddsOne ==
  \A s \in Sketches :
    (ret'.op = "Insert" /\ ret'.self = s)
      => /\ \A o \in Sketches \ {s} : counts_'[o] = counts_[o]
         /\ \A r \in Rows(s) :
              \E c \in Cols(s) :
                /\ counts_'[s][r][c] = U32Inc(counts_[s][r][c])
                /\ counts_[s][r][c] # UINT32_MAX
                /\ \A d \in Cols(s) \ {c} : counts_'[s][r][d] = counts_[s][r][d]

\* C20: in every state reached by Insert, Clear and Merge of equal dimensions,
\* one after another, on sketches that started empty, all rows of a sketch
\* have the same sum of counters, and one Insert raises the sum of every row
\* by exactly 1, through one counter of the row.
C20_EqualRowSums == []RowSumsEqual /\ [][InsertAddsOne]_vars

\* The same with the sum named: it is the number of insertions taken in since
\* the last Clear.  This holds of the runs that keep that number small.
EqualRowSumsAbsorbed == []RowSumsAreAbsorbed /\ [][InsertAddsOne]_vars

====
